---- MODULE Spec2Model ----
(***************************************************************************)
(* Model of MCPChatApp (src/main.py): the status callback handed to the   *)
(* agent, the streaming relay chat_stream with its worker thread, and the  *)
(* blocking variant chat_async.  The instance fields current_status and    *)
(* stream_status_queue are shared by every call on the same MCPChatApp;    *)
(* everything else is local to one call.                                   *)
(*                                                                         *)
(* Text is a sequence of one-character strings.  A status line built by an *)
(* f-string is kept as [kind, text]: kind names the fixed frame of the     *)
(* f-string and text the value embedded in it (the frames start with       *)
(* different characters, so two status lines are equal exactly when kind   *)
(* and text are equal).  Queue entries and yielded snapshots carry, beside *)
(* kind and text, the history fields from/seq: which call's callback       *)
(* pushed the entry and as its how-manieth; the code never reads them.     *)
(***************************************************************************)
EXTENDS Integers, Sequences, FiniteSets, TLC

\* The callers that may be inside chat_stream / chat_async at the same time.
Calls == {"A", "B"}

\* Upper limit on the callback invocations of all agent calls together: while
\* calls overlap (Spec), while they overlap under fair scheduling (FairSpec, whose
\* behaviours TLC searches for cycles) and when there is one caller (SpecOne).
MaxEvents == 2

MaxEventsFair == 1

MaxEventsOne == 3

\* kwargs["reasoningText"][:50], len(...) > 50
PreviewLen == 50

\* len(current_text) % 15 == 0
ChunkLen == 15

VARIABLES
    agent,                \* self.agent: "None" or "Agent"
    current_status,       \* self.current_status
    stream_status_queue,  \* self.stream_status_queue
    mode,                 \* per call: "-", "stream" (chat_stream) or "async" (chat_async)
    pc,                   \* per call: position of the caller's thread in chat_stream / chat_async
    alive,                \* per call: agent_thread.is_alive()
    running,              \* per call: the agent call self.agent(message) is in progress
    agent_response,       \* per call: local agent_response / response
    agent_error,          \* per call: local agent_error
    exc,                  \* per call: the exception the except clause of the call handles
    last_status,          \* per call: local last_status
    tool_info,            \* per call: local tool_info
    yielded,              \* per call: what the generator has yielded / the function returned
    emitted,              \* per call: number of callback invocations of its agent call
    pushed,               \* per call: the queue entries its callback has appended
    popped,               \* per call: the queue entries its relay loop has popped
    kwargs,               \* the field bag of a callback invocation looked at on its own
    returned,             \* whether that invocation has returned to the agent
    config,               \* self.config: the "mcpServers" and "user_servers" entries
    config_file,          \* config.json: whether it holds a configuration, and which
    mcp_servers,          \* self.mcp_servers: the integrated servers
    outcome               \* what the last add_mcp_server / remove_mcp_server returned

\* the state of the chat calls
chat == <<agent, mode, pc, alive, running, agent_response, agent_error, exc, last_status,
          tool_info, yielded, emitted, pushed, popped>>

\* the state a single callback invocation is checked on
adapter == <<kwargs, returned>>

\* the state of the server management
servers == <<config, config_file, mcp_servers, outcome>>

vars == <<current_status, stream_status_queue, chat, adapter, servers>>

----------------------------------------------------------------------------
\* Text helpers

Chars(n, ch) == [i \in 1..n |-> ch]

Empty == <<>>

Unknown == <<"u", "n", "k", "n", "o", "w", "n">>

Ellipsis == <<".", ".", ".">>

\* "\n\n🔧 使用ツール: " (eleven characters; the non-ASCII ones are written as letters)
ToolInfoPrefix == <<"\n", "\n", "T", " ", "t", "o", "o", "l", "s", ":", " ">>

\* str(IndexError) of list.pop on an empty list
PopFromEmpty == <<"p", "o", "p", " ", "e", "m", "p", "t", "y">>

None == [type |-> "None", text |-> Empty]

\* str(x): a value [type, text] carries in text what str() renders for it; None renders as "None"
Str(r) == IF r.type = "None" THEN <<"N", "o", "n", "e">> ELSE r.text

\* if not isinstance(x, str): x = str(x)
Stringify(r) == IF r.type = "str" THEN r ELSE [type |-> "str", text |-> Str(r)]

NoStatus == [kind |-> "", text |-> Empty]

ResetStatus == [message |-> NoStatus, tool_name |-> Empty, thinking |-> FALSE]

Snapshot(kind, text) == [kind |-> kind, text |-> text, from |-> "-", seq |-> 0]

StatusOf(e) == [kind |-> e.kind, text |-> e.text]

----------------------------------------------------------------------------
\* The field bags the agent passes to the callback

NoTool == [isMap |-> TRUE, hasName |-> FALSE, name |-> Empty]

NoText == [isText |-> TRUE, text |-> Empty]

ToolBag(name) ==
    [keys |-> {"current_tool_use"},
     tool |-> [isMap |-> TRUE, hasName |-> TRUE, name |-> name],
     rtext |-> NoText, complete |-> FALSE]

ReasoningTextBag(t) ==
    [keys |-> {"reasoningText"}, tool |-> NoTool,
     rtext |-> [isText |-> TRUE, text |-> t], complete |-> FALSE]

KeysBag(keys, complete) ==
    [keys |-> keys, tool |-> NoTool, rtext |-> NoText, complete |-> complete]

\* The bags drawn while two calls overlap
Bags ==
    { ToolBag(<<"c">>),
      KeysBag({"data"}, FALSE) }

\* The bags drawn when there is one caller
AllBags ==
    { ToolBag(<<"c">>),
      ToolBag(Chars(PreviewLen + 1, "n")),
      ToolBag(Empty),
      [keys |-> {"current_tool_use"}, tool |-> NoTool, rtext |-> NoText, complete |-> FALSE],
      KeysBag({"reasoning"}, FALSE),
      ReasoningTextBag(<<"t">>),
      ReasoningTextBag(Chars(PreviewLen + 1, "t")),
      KeysBag({"data"}, FALSE),
      KeysBag({"complete"}, TRUE),
      KeysBag({"complete"}, FALSE),
      KeysBag({}, FALSE) }

\* What the agent call may return, and the exceptions it may raise
Results ==
    { [type |-> "str", text |-> <<"6">>],
      [type |-> "AgentResult", text |-> Chars(ChunkLen + 1, "r")] }

Errors == { [type |-> "Exception", text |-> <<"u", "p">>] }

----------------------------------------------------------------------------
\* status_callback(**kwargs): the new current_status and stream_status_queue.
\* from/seq tag the entry pushed by this invocation.

Preview(t) == IF Len(t) > PreviewLen THEN SubSeq(t, 1, PreviewLen) \o Ellipsis ELSE t

ToolName(tool) == IF tool.hasName THEN tool.name ELSE Unknown

Push(q, kind, text, c, n) == Append(q, [kind |-> kind, text |-> text, from |-> c, seq |-> n])

\* Unchanged for an except clause that clears the status
Cleared(cs, q) == [cs |-> ResetStatus, q |-> q]

Unchanged(cs, q) == [cs |-> cs, q |-> q]

\* status_callback with the "data" test placed before the reasoning tests
status_callback_data_first(bag, cs, q, c, n) ==
    IF "current_tool_use" \in bag.keys THEN
        IF ~bag.tool.isMap THEN [cs |-> cs, q |-> q]
        ELSE [cs |-> [cs EXCEPT !.tool_name = ToolName(bag.tool),
                                !.message = [kind |-> "tool_msg", text |-> ToolName(bag.tool)]],
              q |-> Push(q, "tool", ToolName(bag.tool), c, n)]
    ELSE IF "data" \in bag.keys THEN
        [cs |-> [cs EXCEPT !.message = [kind |-> "generating_msg", text |-> Empty],
                           !.thinking = FALSE],
         q |-> Push(q, "generating", Empty, c, n)]
    ELSE IF "reasoning" \in bag.keys THEN
        [cs |-> [cs EXCEPT !.thinking = TRUE,
                           !.message = [kind |-> "thinking_msg", text |-> Empty]],
         q |-> Push(q, "thinking", Empty, c, n)]
    ELSE IF "reasoningText" \in bag.keys THEN
        IF ~bag.rtext.isText THEN [cs |-> cs, q |-> q]
        ELSE [cs |-> [cs EXCEPT !.message = [kind |-> "reasoning_msg",
                                             text |-> Preview(bag.rtext.text)]],
              q |-> Push(q, "reasoning", Preview(bag.rtext.text), c, n)]
    ELSE IF "complete" \in bag.keys /\ bag.complete THEN
        [cs |-> [cs EXCEPT !.message = NoStatus, !.thinking = FALSE], q |-> q]
    ELSE [cs |-> cs, q |-> q]

status_callback(bag, cs, q, c, n) ==
    IF "current_tool_use" \in bag.keys THEN
        IF ~bag.tool.isMap THEN Unchanged(cs, q)   \* .get raises, caught by except
        ELSE [cs |-> [cs EXCEPT !.tool_name = ToolName(bag.tool),
                                !.message = [kind |-> "tool_msg", text |-> ToolName(bag.tool)]],
              q |-> Push(q, "tool", ToolName(bag.tool), c, n)]
    ELSE IF "reasoning" \in bag.keys THEN
        [cs |-> [cs EXCEPT !.thinking = TRUE,
                           !.message = [kind |-> "thinking_msg", text |-> Empty]],
         q |-> Push(q, "thinking", Empty, c, n)]
    ELSE IF "reasoningText" \in bag.keys THEN
        IF ~bag.rtext.isText THEN Unchanged(cs, q) \* len() raises, caught by except
        ELSE [cs |-> [cs EXCEPT !.message = [kind |-> "reasoning_msg",
                                             text |-> Preview(bag.rtext.text)]],
              q |-> Push(q, "reasoning", Preview(bag.rtext.text), c, n)]
    ELSE IF "data" \in bag.keys THEN
        [cs |-> [cs EXCEPT !.message = [kind |-> "generating_msg", text |-> Empty],
                           !.thinking = FALSE],
         q |-> Push(q, "generating", Empty, c, n)]
    ELSE IF "complete" \in bag.keys /\ bag.complete THEN
        [cs |-> [cs EXCEPT !.message = NoStatus, !.thinking = FALSE], q |-> q]
    ELSE Unchanged(cs, q)

----------------------------------------------------------------------------
\* no call has begun
ChatIdle ==
    /\ mode = [c \in Calls |-> "-"]
    /\ pc = [c \in Calls |-> "idle"]
    /\ alive = [c \in Calls |-> FALSE]
    /\ running = [c \in Calls |-> FALSE]
    /\ agent_response = [c \in Calls |-> None]
    /\ agent_error = [c \in Calls |-> None]
    /\ last_status = [c \in Calls |-> NoStatus]
    /\ tool_info = [c \in Calls |-> Empty]
    /\ yielded = [c \in Calls |-> <<>>]
    /\ emitted = [c \in Calls |-> 0]
    /\ pushed = [c \in Calls |-> <<>>]
    /\ exc = [c \in Calls |-> None]
    /\ popped = [c \in Calls |-> <<>>]

\* a bag without fields
NoBag == KeysBag({}, FALSE)

\* no callback invocation is looked at on its own
AdapterIdle == kwargs = NoBag /\ returned = FALSE

\* the server names and commands the management calls are made with
Names == {"a", "b"}

Commands == {"x", "y"}

\* a mapping from server names to configurations in which no name is a key:
\* "-" stands for the absence of the key
NoServers == [n \in Names |-> "-"]

Keys(m) == {n \in Names : m[n] # "-"}

\* _load_config's fallback (lines 63-65): both keys, nothing in them.  hasServers
\* and hasUser tell whether the dictionary has "mcpServers" and "user_servers".
FallbackConfig ==
    [hasServers |-> TRUE, mcpServers |-> NoServers, hasUser |-> TRUE, user_servers |-> <<>>]

\* config.json could not be read, the fallback is in use, nothing is integrated and
\* no management call was made
ServersIdle ==
    /\ config = FallbackConfig
    /\ config_file = [readable |-> FALSE, content |-> FallbackConfig]
    /\ mcp_servers = NoServers
    /\ outcome = "-"

Init ==
    /\ agent \in {"None", "Agent"}
    /\ current_status = ResetStatus
    /\ stream_status_queue = <<>>
    /\ ChatIdle
    /\ AdapterIdle
    /\ ServersIdle

----------------------------------------------------------------------------
\* chat_stream(message, _history), one action per step between two points where
\* another thread can run or the generator is suspended

Yield(c, snap) == yielded' = [yielded EXCEPT ![c] = Append(@, snap)]

\* Begin without the check of self.agent
BeginUnchecked(c) ==
    /\ pc[c] = "idle"
    /\ mode' = [mode EXCEPT ![c] = "stream"]
    /\ current_status' = ResetStatus
    /\ stream_status_queue' = <<>>
    /\ Yield(c, Snapshot("started", Empty))
    /\ pc' = [pc EXCEPT ![c] = "thinking"]
    /\ UNCHANGED <<agent, alive, running, agent_response, agent_error, last_status,
                   tool_info, emitted, pushed, popped, exc>>
    /\ UNCHANGED <<adapter, servers>>

\* lines 335-350: the agent check, the status reset and the first yield
Begin(c) ==
    /\ pc[c] = "idle"
    /\ mode' = [mode EXCEPT ![c] = "stream"]
    /\ IF agent = "None"
       THEN /\ Yield(c, Snapshot("error_init", Empty))
            /\ pc' = [pc EXCEPT ![c] = "finally"]
            /\ UNCHANGED <<current_status, stream_status_queue>>
       ELSE /\ current_status' = ResetStatus
            /\ stream_status_queue' = <<>>
            /\ Yield(c, Snapshot("started", Empty))
            /\ pc' = [pc EXCEPT ![c] = "thinking"]
    /\ UNCHANGED <<agent, alive, running, agent_response, agent_error, last_status,
                   tool_info, emitted, pushed, popped, exc>>
    /\ UNCHANGED <<adapter, servers>>

\* lines 356-358
YieldThinking(c) ==
    /\ pc[c] = "thinking"
    /\ Yield(c, Snapshot("thinking", Empty))
    /\ pc' = [pc EXCEPT ![c] = "spawn"]
    /\ UNCHANGED <<agent, current_status, stream_status_queue, mode, alive, running,
                   agent_response, agent_error, last_status, tool_info, emitted, pushed, popped, exc>>
    /\ UNCHANGED <<adapter, servers>>

\* lines 360-376: the locals, agent_thread.start(), last_status = ""
StartThread(c) ==
    /\ pc[c] = "spawn"
    /\ agent_response' = [agent_response EXCEPT ![c] = None]
    /\ agent_error' = [agent_error EXCEPT ![c] = None]
    /\ alive' = [alive EXCEPT ![c] = TRUE]
    /\ running' = [running EXCEPT ![c] = TRUE]
    /\ last_status' = [last_status EXCEPT ![c] = NoStatus]
    /\ pc' = [pc EXCEPT ![c] = "loop"]
    /\ UNCHANGED <<agent, current_status, stream_status_queue, mode, tool_info,
                   yielded, emitted, pushed, popped, exc>>
    /\ UNCHANGED <<adapter, servers>>

\* LoopCheck with a loop condition that never turns false
LoopCheckNoExit(c) ==
    /\ pc[c] = "loop"
    /\ pc' = [pc EXCEPT ![c] = IF stream_status_queue # <<>> THEN "pop" ELSE "loop"]
    /\ UNCHANGED <<agent, current_status, stream_status_queue, mode, alive, running,
                   agent_response, agent_error, last_status, tool_info, yielded,
                   emitted, pushed, popped, exc>>
    /\ UNCHANGED <<adapter, servers>>

\* lines 377-379 and 385-386: while agent_thread.is_alive(), if self.stream_status_queue,
\* else sleep and look again
LoopCheck(c) ==
    /\ pc[c] = "loop"
    /\ pc' = [pc EXCEPT ![c] = IF ~alive[c] THEN "join"
                               ELSE IF stream_status_queue # <<>> THEN "pop" ELSE "loop"]
    /\ UNCHANGED <<agent, current_status, stream_status_queue, mode, alive, running,
                   agent_response, agent_error, last_status, tool_info, yielded,
                   emitted, pushed, popped, exc>>
    /\ UNCHANGED <<adapter, servers>>

\* PopIndex for list.pop(), which takes the newest entry
PopLast(q) == Len(q)

\* the entry list.pop(0) takes
PopIndex(q) == 1

\* Differs without the comparison: every popped status is yielded
NoDedup(status, last) == TRUE

\* if status != last_status
Differs(status, last) == status # last

\* lines 380-384: pop(0), the comparison with last_status and the yield
Pop(c) ==
    /\ pc[c] = "pop"
    /\ IF stream_status_queue = <<>>
       THEN \* IndexError, handled at line 430
            /\ exc' = [exc EXCEPT ![c] = [type |-> "IndexError", text |-> PopFromEmpty]]
            /\ pc' = [pc EXCEPT ![c] = "except"]
            /\ UNCHANGED <<stream_status_queue, popped, yielded, last_status>>
       ELSE LET i == PopIndex(stream_status_queue)
                e == stream_status_queue[i]
            IN  /\ stream_status_queue' =
                      SubSeq(stream_status_queue, 1, i - 1)
                        \o SubSeq(stream_status_queue, i + 1, Len(stream_status_queue))
                /\ popped' = [popped EXCEPT ![c] = Append(@, e)]
                /\ IF Differs(StatusOf(e), last_status[c])
                   THEN /\ Yield(c, e)
                        /\ last_status' = [last_status EXCEPT ![c] = StatusOf(e)]
                   ELSE UNCHANGED <<yielded, last_status>>
                /\ pc' = [pc EXCEPT ![c] = "loop"]
                /\ UNCHANGED exc
    /\ UNCHANGED <<agent, current_status, mode, alive, running, agent_response,
                   agent_error, tool_info, emitted, pushed>>
    /\ UNCHANGED <<adapter, servers>>

\* lines 389-401: join(), the error check, the stringification
Join(c) ==
    /\ pc[c] = "join"
    /\ ~alive[c]
    /\ IF agent_error[c] # None
       THEN /\ exc' = [exc EXCEPT ![c] = agent_error[c]]
            /\ pc' = [pc EXCEPT ![c] = "except"]
            /\ UNCHANGED agent_response
       ELSE /\ agent_response' = [agent_response EXCEPT ![c] = Stringify(@)]
            /\ pc' = [pc EXCEPT ![c] = "toolcheck"]
            /\ UNCHANGED exc
    /\ UNCHANGED <<agent, current_status, stream_status_queue, mode, alive, running,
                   agent_error, last_status, tool_info, yielded, emitted, pushed, popped>>
    /\ UNCHANGED <<adapter, servers>>

\* lines 403-406 (chat_stream) and 469 (chat_async): if self.current_status["tool_name"]
ToolCheck(c) ==
    /\ pc[c] = "toolcheck"
    /\ IF current_status.tool_name # Empty
       THEN /\ pc' = [pc EXCEPT ![c] = "toolread"]
            /\ UNCHANGED tool_info
       ELSE /\ tool_info' = [tool_info EXCEPT ![c] = Empty]
            /\ pc' = [pc EXCEPT ![c] = IF mode[c] = "stream" THEN "reveal" ELSE "return"]
    /\ UNCHANGED <<agent, current_status, stream_status_queue, mode, alive, running,
                   agent_response, agent_error, last_status, yielded, emitted, pushed, popped, exc>>
    /\ UNCHANGED <<adapter, servers>>

\* lines 406 and 470: the f-string reads self.current_status['tool_name'] again
ToolRead(c) ==
    /\ pc[c] = "toolread"
    /\ tool_info' = [tool_info EXCEPT ![c] = ToolInfoPrefix \o current_status.tool_name]
    /\ pc' = [pc EXCEPT ![c] = IF mode[c] = "stream" THEN "reveal" ELSE "return"]
    /\ UNCHANGED <<agent, current_status, stream_status_queue, mode, alive, running,
                   agent_response, agent_error, last_status, yielded, emitted, pushed, popped, exc>>
    /\ UNCHANGED <<adapter, servers>>

\* line 409 (and 471): agent_response + tool_info
final_response(c) == agent_response[c].text \o tool_info[c]

\* lines 416-421: the prefixes of t whose length is a multiple of 15, shortest first
Chunks(t) == [j \in 1..(Len(t) \div ChunkLen) |-> Snapshot("response", SubSeq(t, 1, j * ChunkLen))]

\* lines 411-424: the notice, the partial responses, then the complete one
Reveal(c) ==
    /\ pc[c] = "reveal"
    /\ yielded' = [yielded EXCEPT ![c] =
                      @ \o <<Snapshot("generating", Empty)>>
                        \o Chunks(final_response(c))
                        \o <<Snapshot("response", final_response(c))>>]
    /\ pc' = [pc EXCEPT ![c] = "finally"]
    /\ UNCHANGED <<agent, current_status, stream_status_queue, mode, alive, running,
                   agent_response, agent_error, last_status, tool_info, emitted, pushed, popped, exc>>
    /\ UNCHANGED <<adapter, servers>>

\* lines 430-432 and 479-481: the message built from str(e)
Except(c) ==
    /\ pc[c] = "except"
    /\ Yield(c, Snapshot("error", Str(exc[c])))
    /\ pc' = [pc EXCEPT ![c] = "finally"]
    /\ UNCHANGED <<agent, current_status, stream_status_queue, mode, alive, running,
                   agent_response, agent_error, last_status, tool_info, emitted, pushed, popped, exc>>
    /\ UNCHANGED <<adapter, servers>>

\* lines 433-436 and 482-484: chat_async clears current_status only
Finally(c) ==
    /\ pc[c] = "finally"
    /\ current_status' = ResetStatus
    /\ stream_status_queue' = IF mode[c] = "stream" THEN <<>> ELSE stream_status_queue
    /\ pc' = [pc EXCEPT ![c] = "done"]
    /\ UNCHANGED <<agent, mode, alive, running, agent_response, agent_error,
                   last_status, tool_info, yielded, emitted, pushed, popped, exc>>
    /\ UNCHANGED <<adapter, servers>>

----------------------------------------------------------------------------
\* chat_async(message, _history): the agent call runs in the caller's own thread

\* lines 442-451
AsyncBegin(c) ==
    /\ pc[c] = "idle"
    /\ mode' = [mode EXCEPT ![c] = "async"]
    /\ IF agent = "None"
       THEN /\ Yield(c, Snapshot("error_init", Empty))
            /\ pc' = [pc EXCEPT ![c] = "finally"]
            /\ UNCHANGED <<current_status, running>>
       ELSE /\ current_status' = ResetStatus
            /\ running' = [running EXCEPT ![c] = TRUE]
            /\ pc' = [pc EXCEPT ![c] = "call"]
            /\ UNCHANGED yielded
    /\ UNCHANGED <<agent, stream_status_queue, alive, agent_response, agent_error,
                   last_status, tool_info, emitted, pushed, popped, exc>>
    /\ UNCHANGED <<adapter, servers>>

\* lines 458-466: the call has returned or raised
AfterCall(c) ==
    /\ pc[c] = "call"
    /\ ~running[c]
    /\ IF agent_error[c] # None
       THEN /\ exc' = [exc EXCEPT ![c] = agent_error[c]]
            /\ pc' = [pc EXCEPT ![c] = "except"]
            /\ UNCHANGED agent_response
       ELSE /\ agent_response' = [agent_response EXCEPT ![c] = Stringify(@)]
            /\ pc' = [pc EXCEPT ![c] = "toolcheck"]
            /\ UNCHANGED exc
    /\ UNCHANGED <<agent, current_status, stream_status_queue, mode, alive, running,
                   agent_error, last_status, tool_info, yielded, emitted, pushed, popped>>
    /\ UNCHANGED <<adapter, servers>>

\* line 477
AsyncReturn(c) ==
    /\ pc[c] = "return"
    /\ Yield(c, Snapshot("response", final_response(c)))
    /\ pc' = [pc EXCEPT ![c] = "finally"]
    /\ UNCHANGED <<agent, current_status, stream_status_queue, mode, alive, running,
                   agent_response, agent_error, last_status, tool_info, emitted, pushed, popped, exc>>
    /\ UNCHANGED <<adapter, servers>>

----------------------------------------------------------------------------
\* The agent call self.agent(message): run_agent in the worker thread (lines
\* 364-369), or inline in chat_async (line 458)

\* the entries of q2 that were appended to q
Appended(q, q2) == SubSeq(q2, Len(q) + 1, Len(q2))

RECURSIVE Sum(_, _)
Sum(f, S) == IF S = {} THEN 0
             ELSE LET x == CHOOSE y \in S : TRUE IN f[x] + Sum(f, S \ {x})

\* the agent invokes callback_handler with one of the bags
Emit(c, bags, limit) ==
    /\ running[c]
    /\ Sum(emitted, Calls) < limit
    /\ \E bag \in bags :
         LET r == status_callback(bag, current_status, stream_status_queue, c,
                                  Len(pushed[c]) + 1)
         IN  /\ current_status' = r.cs
             /\ stream_status_queue' = r.q
             /\ pushed' = [pushed EXCEPT ![c] = @ \o Appended(stream_status_queue, r.q)]
    /\ emitted' = [emitted EXCEPT ![c] = @ + 1]
    /\ UNCHANGED <<agent, mode, pc, alive, running, agent_response, agent_error,
                   last_status, tool_info, yielded, popped, exc>>
    /\ UNCHANGED <<adapter, servers>>

\* line 367: agent_response = self.agent(message); the thread ends
AgentReturns(c) ==
    /\ running[c]
    /\ \E r \in Results : agent_response' = [agent_response EXCEPT ![c] = r]
    /\ running' = [running EXCEPT ![c] = FALSE]
    /\ alive' = [alive EXCEPT ![c] = FALSE]
    /\ UNCHANGED <<agent, current_status, stream_status_queue, mode, pc, agent_error,
                   last_status, tool_info, yielded, emitted, pushed, popped, exc>>
    /\ UNCHANGED <<adapter, servers>>

\* AgentRaises with an except clause that does not record the exception
AgentRaisesLost(c) ==
    /\ running[c]
    /\ running' = [running EXCEPT ![c] = FALSE]
    /\ alive' = [alive EXCEPT ![c] = FALSE]
    /\ UNCHANGED <<agent, current_status, stream_status_queue, mode, pc, agent_response,
                   agent_error, last_status, tool_info, yielded, emitted, pushed, popped, exc>>
    /\ UNCHANGED <<adapter, servers>>

\* lines 368-369: except Exception as e: agent_error = e; the thread ends
AgentRaises(c) ==
    /\ running[c]
    /\ \E e \in Errors : agent_error' = [agent_error EXCEPT ![c] = e]
    /\ running' = [running EXCEPT ![c] = FALSE]
    /\ alive' = [alive EXCEPT ![c] = FALSE]
    /\ UNCHANGED <<agent, current_status, stream_status_queue, mode, pc, agent_response,
                   last_status, tool_info, yielded, emitted, pushed, popped, exc>>
    /\ UNCHANGED <<adapter, servers>>

----------------------------------------------------------------------------
\* the steps of chat_stream
Stream(c) ==
    \/ Begin(c) \/ YieldThinking(c) \/ StartThread(c) \/ LoopCheck(c) \/ Pop(c)
    \/ Join(c) \/ ToolCheck(c) \/ ToolRead(c) \/ Reveal(c) \/ Except(c) \/ Finally(c)

\* the steps of chat_async
Async(c) == AsyncBegin(c) \/ AfterCall(c) \/ AsyncReturn(c)

\* the steps of the agent call
Worker(c, bags, limit) == Emit(c, bags, limit) \/ AgentReturns(c) \/ AgentRaises(c)

\* Overlapping chat_stream calls on one MCPChatApp
Next == \E c \in Calls : Stream(c) \/ Worker(c, Bags, MaxEvents)

Spec == Init /\ [][Next]_vars

\* Overlapping chat_stream calls under fair scheduling: each thread that can take
\* a step eventually takes one, and the agent call eventually returns or raises.
NextFair == \E c \in Calls : Stream(c) \/ Worker(c, Bags, MaxEventsFair)

FairSpec ==
    /\ Init /\ [][NextFair]_vars
    /\ \A c \in Calls : WF_vars(Stream(c)) /\ WF_vars(Worker(c, Bags, MaxEventsFair))

\* One caller, in chat_stream or in chat_async
Caller == "A"

NextOne == Stream(Caller) \/ Async(Caller) \/ Worker(Caller, AllBags, MaxEventsOne)

SpecOne == Init /\ [][NextOne]_vars

----------------------------------------------------------------------------
\* One invocation of status_callback on its own: any combination of the five
\* fields the callback looks for, with well-formed and malformed values

FieldNames == {"current_tool_use", "reasoning", "reasoningText", "data", "complete"}

\* kwargs["current_tool_use"]: a mapping with or without "name", or a value without .get
ToolValues ==
    { [isMap |-> TRUE, hasName |-> TRUE, name |-> <<"c">>],
      NoTool,
      [isMap |-> FALSE, hasName |-> FALSE, name |-> Empty] }

\* kwargs["reasoningText"]: a short or a long text, or a value on which len() raises
TextValues ==
    { [isText |-> TRUE, text |-> <<"t">>],
      [isText |-> TRUE, text |-> Chars(PreviewLen + 1, "t")],
      [isText |-> FALSE, text |-> Empty] }

BagSpace ==
    [keys : SUBSET FieldNames, tool : ToolValues, rtext : TextValues, complete : BOOLEAN]

\* self.current_status before the invocation: just reset, or left by earlier events
StatusSpace ==
    { ResetStatus,
      [message |-> [kind |-> "tool_msg", text |-> <<"c">>],
       tool_name |-> <<"c">>, thinking |-> TRUE] }

QueueSpace == { <<>>, Push(<<>>, "generating", Empty, Caller, 1) }

InitAdapter ==
    /\ agent = "Agent"
    /\ current_status \in StatusSpace
    /\ stream_status_queue \in QueueSpace
    /\ ChatIdle
    /\ kwargs \in BagSpace
    /\ returned = FALSE
    /\ ServersIdle

\* lines 127-171: the agent calls status_callback(**kwargs) and gets control back;
\* except Exception (line 170) lets no error of the body out
Invoke ==
    /\ ~returned
    /\ LET r == status_callback(kwargs, current_status, stream_status_queue, Caller,
                                Len(stream_status_queue) + 1)
       IN  /\ current_status' = r.cs
           /\ stream_status_queue' = r.q
    /\ returned' = TRUE
    /\ UNCHANGED <<kwargs, chat, servers>>

SpecAdapter == InitAdapter /\ [][Invoke]_vars

----------------------------------------------------------------------------
\* add_mcp_server and remove_mcp_server on a configuration loaded from config.json

\* the longest user_servers list add_mcp_server is still called on
MaxUserServers == 3

\* the lists without repetition of at most two names out of keys
UserLists(keys) ==
    {<<>>} \cup {<<n>> : n \in keys}
           \cup {p \in keys \X keys : p[1] # p[2]}

\* lines 28-30, 59: json.load does not check which keys the file has.  The files
\* drawn have every name of user_servers among the keys of mcpServers; a missing
\* key is modelled with its empty value and the flag down.
LoadedConfigs ==
    { [hasServers |-> hs, mcpServers |-> m, hasUser |-> hu, user_servers |-> u] :
        hs \in BOOLEAN, hu \in BOOLEAN, m \in [Names -> {"x", "-"}],
        u \in UserLists(Names) }

WellFormed(cfg) ==
    /\ ~cfg.hasServers => cfg.mcpServers = NoServers
    /\ ~cfg.hasUser => cfg.user_servers = <<>>
    /\ cfg.user_servers \in UserLists(Keys(cfg.mcpServers))

\* lines 313-322: every entry of config["mcpServers"] is written into the registry;
\* nothing is ever taken out of it
Integrate(cfg, registry) ==
    [n \in Names |-> IF cfg.mcpServers[n] # "-" THEN cfg.mcpServers[n] ELSE registry[n]]

\* lines 19-24, 179, 190: the state after construction from a readable config.json;
\* _setup_mcp_integration has run unless the agent could not be created
InitServers ==
    /\ agent \in {"None", "Agent"}
    /\ current_status = ResetStatus
    /\ stream_status_queue = <<>>
    /\ ChatIdle
    /\ AdapterIdle
    /\ config \in {cfg \in LoadedConfigs : WellFormed(cfg)}
    /\ config_file = [readable |-> TRUE, content |-> config]
    /\ mcp_servers = IF agent = "Agent" THEN Integrate(config, NoServers) ELSE NoServers
    /\ outcome = "-"

\* lines 76-82: the file takes the configuration, or the write fails and is logged
Saved(cfg) == {[readable |-> TRUE, content |-> cfg], config_file}

\* lines 502-531
add_mcp_server(name, command) ==
    /\ Len(config.user_servers) < MaxUserServers
    /\ IF ~config.hasServers THEN
            \* line 520: KeyError before anything is written
            /\ outcome' = "add_failed"
            /\ UNCHANGED <<config, config_file, mcp_servers>>
       ELSE IF ~config.hasUser THEN
            \* line 521: KeyError after line 520 has written the entry
            /\ config' = [config EXCEPT !.mcpServers[name] = command]
            /\ outcome' = "add_failed"
            /\ UNCHANGED <<config_file, mcp_servers>>
       ELSE /\ config' = [config EXCEPT !.mcpServers[name] = command,
                                        !.user_servers = Append(@, name)]
            /\ config_file' \in Saved(config')
            /\ mcp_servers' = Integrate(config', mcp_servers)
            /\ outcome' = "added"
    /\ UNCHANGED <<current_status, stream_status_queue, chat, adapter>>

\* list.remove(x): the list without the first occurrence of x
RECURSIVE Remove(_, _)
Remove(seq, x) ==
    IF seq = <<>> THEN <<>>
    ELSE IF Head(seq) = x THEN Tail(seq)
    ELSE <<Head(seq)>> \o Remove(Tail(seq), x)

\* lines 533-547
remove_mcp_server(name) ==
    /\ IF ~config.hasServers THEN
            \* line 536: KeyError
            /\ outcome' = "remove_failed"
            /\ UNCHANGED <<config, config_file>>
       ELSE IF config.mcpServers[name] = "-" THEN
            /\ outcome' = "not_found"
            /\ UNCHANGED <<config, config_file>>
       ELSE IF ~config.hasUser THEN
            \* line 538: KeyError after line 537 has deleted the entry
            /\ config' = [config EXCEPT !.mcpServers[name] = "-"]
            /\ outcome' = "remove_failed"
            /\ UNCHANGED config_file
       ELSE /\ config' = [config EXCEPT !.mcpServers[name] = "-",
                                        !.user_servers = Remove(@, name)]
            /\ config_file' \in Saved(config')
            /\ outcome' = "removed"
    /\ UNCHANGED mcp_servers
    /\ UNCHANGED <<current_status, stream_status_queue, chat, adapter>>

\* lines 690-702: the two buttons of the management tab
NextServers ==
    \/ \E name \in Names, command \in Commands : add_mcp_server(name, command)
    \/ \E name \in Names : remove_mcp_server(name)

SpecServers == InitServers /\ [][NextServers]_vars

----------------------------------------------------------------------------
\* Helpers of the properties

Last(s) == s[Len(s)]

\* the snapshots the polling loop of call c yielded (queue entries), in order
LoopYields(c) == SelectSeq(yielded[c], LAMBDA s : s.from # "-")

Statuses(seq) == [i \in 1..Len(seq) |-> StatusOf(seq[i])]

\* seq without the elements equal to their immediate predecessor
RECURSIVE Dedup(_)
Dedup(seq) ==
    IF Len(seq) <= 1 THEN seq
    ELSE LET rest == Dedup(SubSeq(seq, 1, Len(seq) - 1))
         IN  IF Last(seq) = seq[Len(seq) - 1] THEN rest ELSE Append(rest, Last(seq))

InSeq(x, seq) == \E i \in 1..Len(seq) : seq[i] = x

Streaming(c) == mode[c] = "stream" /\ agent = "Agent"

----------------------------------------------------------------------------
\* C1: no loss before completion.  Once a chat_stream call has yielded its final
\* response, every entry its callback appended to the status queue has been
\* popped by its relay loop (none was left in the queue and discarded).
C1_NoLossBeforeCompletion ==
    \A c \in Calls :
        (/\ Streaming(c)
         /\ pc[c] \in {"finally", "done"}
         /\ yielded[c] # <<>>
         /\ Last(yielded[c]).kind = "response")
        => \A i \in 1..Len(pushed[c]) : InSeq(pushed[c][i], popped[c])

\* C2: call isolation.  (a) A relay pops and yields only entries pushed by its own
\* call; (b) while a call is in its polling loop, each entry its callback pushed is
\* still queued or was popped, never wiped by another call's reset or cleanup;
\* (c) the tool named in a call's tool-usage suffix was reported by that call.
C2_CallIsolation ==
    \A c \in Calls :
        /\ \A i \in 1..Len(popped[c]) : popped[c][i].from = c
        /\ pc[c] \in {"loop", "pop"} =>
              \A i \in 1..Len(pushed[c]) :
                  \/ InSeq(pushed[c][i], stream_status_queue)
                  \/ \E d \in Calls : InSeq(pushed[c][i], popped[d])
        /\ (pc[c] \in {"reveal", "return", "finally", "done"} /\ tool_info[c] # Empty) =>
              \E i \in 1..Len(pushed[c]) :
                  /\ pushed[c][i].kind = "tool"
                  /\ tool_info[c] = ToolInfoPrefix \o pushed[c][i].text

\* C3: termination.  Under fair scheduling of the relay and of the agent call, every
\* chat_stream call that was begun reaches its end (the generator is exhausted).
C3_Termination == \A c \in Calls : (pc[c] # "idle") ~> (pc[c] = "done")

\* a call whose agent call raised before reporting anything has ended
C3_Witness ==
    \E c \in Calls :
        Streaming(c) /\ pc[c] = "done" /\ emitted[c] = 0 /\ agent_error[c] # None

\* C4: per-call failure.  When the agent call of a chat_stream call raised e and the
\* call has ended, the call yielded exactly one error snapshot, built from str(e),
\* as its last item, and no response text.
C4_PerCallFailure ==
    \A c \in Calls :
        (Streaming(c) /\ pc[c] = "done" /\ agent_error[c] # None)
        => /\ Last(yielded[c]) = Snapshot("error", Str(agent_error[c]))
           /\ Cardinality({i \in 1..Len(yielded[c]) : yielded[c][i].kind = "error"}) = 1
           /\ \A i \in 1..Len(yielded[c]) : yielded[c][i].kind # "response"

\* C5: FIFO ordering.  Among the entries a relay yields, those pushed by the same
\* call appear in the order in which they were pushed.
C5_FifoOrder ==
    \A c \in Calls :
        \A i, j \in 1..Len(yielded[c]) :
            (i < j /\ yielded[c][i].from # "-" /\ yielded[c][i].from = yielded[c][j].from)
            => yielded[c][i].seq < yielded[c][j].seq

\* a relay has yielded two entries of its own call
C5_Witness ==
    \E c \in Calls :
        \E i, j \in 1..Len(yielded[c]) :
            i < j /\ yielded[c][i].from = c /\ yielded[c][j].from = c

\* C6: de-duplication.  The statuses the polling loop yields are the popped statuses
\* with exactly the immediate repeats left out: no two consecutive yielded statuses
\* are equal, and a status equal to an earlier, not immediately preceding one is
\* yielded again.
C6_Dedup ==
    \A c \in Calls : Statuses(LoopYields(c)) = Dedup(Statuses(popped[c]))

\* two consecutive identical entries were popped and one update was yielded
C6_Witness ==
    \E c \in Calls :
        /\ Len(popped[c]) = 2
        /\ StatusOf(popped[c][1]) = StatusOf(popped[c][2])
        /\ Len(LoopYields(c)) = 1

\* a status was yielded again after a different one
C6_WitnessRepeat ==
    \E c \in Calls :
        /\ Len(LoopYields(c)) = 3
        /\ StatusOf(LoopYields(c)[1]) = StatusOf(LoopYields(c)[3])

\* C7: exactly-once outcome.  When the relay inspects the outcome (at join) the
\* worker thread has finished and exactly one of agent_response and agent_error is
\* set; once one is set the worker writes neither again (agent_error keeps its
\* value, agent_response changes only by the relay's own stringification).
C7_ExactlyOnceOutcome ==
    /\ [](\A c \in Calls :
            pc[c] = "join" =>
                /\ ~alive[c] /\ ~running[c]
                /\ (agent_response[c] # None) # (agent_error[c] # None))
    /\ [][\A c \in Calls :
            (agent_response[c] # None \/ agent_error[c] # None)
            => /\ agent_error'[c] = agent_error[c]
               /\ agent_response'[c] \in {agent_response[c], Stringify(agent_response[c])}]_vars

\* the relay is about to inspect the outcome of an agent call that raised
C7_Witness == \E c \in Calls : pc[c] = "join" /\ agent_error[c] # None

\* C8: no silent gap.  A chat_stream call with an initialized agent yields the
\* started snapshot before its worker thread runs, and if its agent call reported
\* nothing and returned r, the call ends with the response built from r.
C8_NoSilentGap ==
    \A c \in Calls :
        Streaming(c) =>
            /\ (alive[c] \/ pc[c] = "done") =>
                  (yielded[c] # <<>> /\ yielded[c][1] = Snapshot("started", Empty))
            /\ (/\ pc[c] = "done" /\ emitted[c] = 0
                /\ ~running[c] /\ agent_response[c] # None)
               => Last(yielded[c]) = Snapshot("response", Str(agent_response[c]))

\* C9: initialization failure.  With self.agent None, a chat_stream or chat_async
\* call starts no worker thread and no agent call, and ends having produced the
\* one initialization error message.
C9_InitFailure ==
    agent = "None" =>
        \A c \in Calls :
            /\ ~alive[c] /\ ~running[c] /\ emitted[c] = 0
            /\ \/ pc[c] = "idle" /\ yielded[c] = <<>>
               \/ /\ pc[c] \in {"finally", "done"}
                  /\ yielded[c] = <<Snapshot("error_init", Empty)>>

\* a chat_stream call on an app without agent has ended
C9_Witness ==
    \E c \in Calls : agent = "None" /\ mode[c] = "stream" /\ pc[c] = "done"

\* a chat_async call on an app without agent has ended
C9_WitnessAsync ==
    \E c \in Calls : agent = "None" /\ mode[c] = "async" /\ pc[c] = "done"

\* C10: truncation bound.  The text the callback embeds in an enqueued status (the
\* reasoning text, the tool name) is never longer than the preview length.
C10_TruncationBound ==
    \A c \in Calls :
        \A i \in 1..Len(pushed[c]) : Len(pushed[c][i].text) <= PreviewLen

\* C11 (the tool provider of simple_chat.py is entered by one call at a time) is
\* decided by MCPClient, which is not part of the modelled sources.

\* the kind the precedence current_tool_use > reasoning > reasoningText > data >
\* complete(true) assigns to a bag
KindOf(bag) ==
    IF "current_tool_use" \in bag.keys THEN "tool"
    ELSE IF "reasoning" \in bag.keys THEN "thinking"
    ELSE IF "reasoningText" \in bag.keys THEN "reasoning"
    ELSE IF "data" \in bag.keys THEN "generating"
    ELSE IF "complete" \in bag.keys /\ bag.complete THEN "complete"
    ELSE "none"

\* the value of the field that decides the bag's kind cannot be used as the body does
Malformed(bag) ==
    \/ KindOf(bag) = "tool" /\ ~bag.tool.isMap
    \/ KindOf(bag) = "reasoning" /\ ~bag.rtext.isText

\* C12: adapter precedence.  An invocation enqueues at most one status; it enqueues
\* exactly one, of the kind the precedence gives, when that kind is one of the four
\* reporting kinds (and its field is usable), whatever other fields are present; a
\* completion enqueues nothing; a bag of no kind leaves queue and current_status as
\* they were.
C12_AdapterPrecedence ==
    [][(~returned /\ returned') =>
         LET q == stream_status_queue
             q2 == stream_status_queue'
             k == KindOf(kwargs)
         IN  /\ Len(q2) <= Len(q) + 1
             /\ SubSeq(q2, 1, Len(q)) = q
             /\ (k \in {"tool", "thinking", "reasoning", "generating"} /\ ~Malformed(kwargs))
                  => (Len(q2) = Len(q) + 1 /\ Last(q2).kind = k)
             /\ k = "complete" =>
                  (q2 = q /\ current_status'.message = NoStatus /\ ~current_status'.thinking)
             /\ k = "none" => (q2 = q /\ current_status' = current_status)]_vars

\* a bag with the tool field and every lower field was handled as a tool event
C12_Witness ==
    /\ returned
    /\ kwargs.keys = FieldNames
    /\ ~Malformed(kwargs)
    /\ stream_status_queue # <<>>
    /\ Last(stream_status_queue).kind = "tool"

\* C13: the adapter never raises.  Every invocation returns to the agent, and one
\* whose deciding field is malformed (current_tool_use without .get, reasoningText
\* without a length) leaves queue and current_status as they were.
C13_AdapterNeverRaises ==
    /\ [][~returned => returned']_vars
    /\ [][(~returned /\ returned' /\ Malformed(kwargs)) =>
            /\ stream_status_queue' = stream_status_queue
            /\ current_status' = current_status]_vars

\* an invocation with a malformed current_tool_use has returned, the status before
\* it not being the reset one
C13_Witness ==
    /\ returned
    /\ "current_tool_use" \in kwargs.keys
    /\ ~kwargs.tool.isMap
    /\ current_status # ResetStatus

\* the names of the tool-invocation events call c reported, in order
ToolNames(c) ==
    LET tools == SelectSeq(pushed[c], LAMBDA e : e.kind = "tool")
    IN  [i \in 1..Len(tools) |-> tools[i].text]

\* the tool-usage summary: present iff some reported tool name is not empty, and
\* then naming the most recently reported tool
Summary(names) ==
    IF \E i \in 1..Len(names) : names[i] # Empty
    THEN ToolInfoPrefix \o Last(names)
    ELSE Empty

\* C14: final snapshot content.  When the agent call of a chat_stream call with no
\* overlapping call succeeded, the last yielded snapshot is the stringified agent
\* result followed by the tool-usage summary, the summary being present iff a tool
\* event with a non-empty name was reported during the call (no completion or text
\* event takes it away).
C14_FinalSnapshot ==
    \A c \in Calls :
        (/\ Streaming(c)
         /\ pc[c] \in {"finally", "done"}
         /\ exc[c] = None)
        => /\ agent_response[c].type = "str"
           /\ Last(yielded[c]) =
                 Snapshot("response", agent_response[c].text \o Summary(ToolNames(c)))

\* The text chat_stream hands to the interface for a snapshot.  Each fixed part of
\* a message is abbreviated to the characters that tell it from the others: the
\* leading symbol (R rocket, T thought, W wrench, P pen, X cross) and, where two
\* messages share a beginning, the first character at which they part.
Render(s) ==
    IF s.from # "-" THEN
        \* the lines status_callback enqueued
        CASE s.kind = "tool" -> <<"W", "[">> \o s.text \o <<"]">>
          [] s.kind = "thinking" -> <<"T", "A", "I", "s">>
          [] s.kind = "reasoning" -> <<"T", ":">> \o s.text
          [] OTHER -> <<"P", "s">>
    ELSE
        \* the lines chat_stream builds itself
        CASE s.kind = "started" -> <<"R">>
          [] s.kind = "thinking" -> <<"T", "A", "I", "c">>
          [] s.kind = "generating" -> <<"P", "c">>
          [] s.kind = "response" -> s.text
          [] s.kind = "error_init" -> <<"X", "!">>
          [] OTHER -> <<"X", ":">> \o s.text

IsPrefix(a, b) == Len(a) <= Len(b) /\ SubSeq(b, 1, Len(a)) = a

\* C15: accumulated transcript.  Every snapshot chat_stream yields from its polling
\* loop (while the worker runs) has the snapshot yielded just before it as a prefix.
C15_AccumulatedTranscript ==
    \A c \in Calls :
        \A i \in 2..Len(yielded[c]) :
            yielded[c][i].from # "-" =>
                IsPrefix(Render(yielded[c][i - 1]), Render(yielded[c][i]))

\* C16: starting from a configuration in which every name of user_servers is a key
\* of mcpServers, after any sequence of add_mcp_server and remove_mcp_server calls
\* every name of user_servers is still a key of mcpServers.
C16_UserServersAreKeys ==
    \A i \in 1..Len(config.user_servers) :
        config.user_servers[i] \in Keys(config.mcpServers)

\* C17: a call of add_mcp_server that returns its failure message has left the
\* configuration in memory and the registry of integrated servers as they were.
C17_FailedAddChangesNothing ==
    [][outcome' = "add_failed" => (config' = config /\ mcp_servers' = mcp_servers)]_vars

====
